---- MODULE Spec2Model ----
(***************************************************************************)
(* A model of the Wordle bot of src/wordle.py: the constructor, the round  *)
(* loop of play(), and the methods it is built from (make_guess,           *)
(* check_word, filter_possible, is_solved, reset_game, return_total_moves).*)
(* Words are sequences of one-character strings; Python dicts are          *)
(* sequences of key/value records in insertion order; Python lists are     *)
(* sequences. Positions are 0-based as in the source (word[j] is w[j+1]).  *)
(***************************************************************************)
EXTENDS Integers, Sequences, FiniteSets, TLC

VARIABLES
    pc,        \* position of the caller: "unconstructed", "failed", "idle", or a step of play()
    err,       \* exception raised by the last call ("none" when it returned)
    args,      \* the arguments the constructor was called with
    attrs,     \* names of the attributes assigned on the object so far
    answer,    \* self.answer
    words,     \* self.words
    freq,      \* self.freq: dict word -> score, in order of descending score
    played,    \* self.played
    solved,    \* self.solved
    filtered,  \* self.filtered
    shared,    \* TRUE when self.filtered and self.freq are the same dict object
    not_in,    \* self.not_in
    contains,  \* self.contains: dict position -> list of letters
    equals,    \* self.equals: dict position -> letter
    guesses,   \* self.guesses
    board,     \* self.board
    i,         \* local `i` of play() (0 outside play())
    guess,     \* local `guess` of play() (empty outside play())
    ret,       \* value returned by the most recent play() (FALSE until it returns)
    printed,   \* lines the most recent play() wrote to the console
    last,      \* the last call made by the client: [op, arg]
    calls      \* number of direct method calls made by the client

vars == <<pc, err, args, attrs, answer, words, freq, played, solved, filtered,
          shared, not_in, contains, equals, guesses, board, i, guess, ret, printed,
          last, calls>>

game == <<played, solved, filtered, shared, not_in, contains, equals, guesses, board>>

-----------------------------------------------------------------------------
(* Bounds of the model *)

\* number of entries of wordle.txt that are loaded
NumNewWords == 9

\* number of direct method calls a client makes in SpecApi
MaxCalls == 3

-----------------------------------------------------------------------------
(* Characters and strings *)

LowerCaseLetters ==
    <<"a","b","c","d","e","f","g","h","i","j","k","l","m",
      "n","o","p","q","r","s","t","u","v","w","x","y","z">>

UpperCaseLetters ==
    <<"A","B","C","D","E","F","G","H","I","J","K","L","M",
      "N","O","P","Q","R","S","T","U","V","W","X","Y","Z">>

IndexIn(c, s) == CHOOSE k \in 1..Len(s) : s[k] = c

IsUpper(c) == \E k \in 1..Len(UpperCaseLetters) : UpperCaseLetters[k] = c

\* code point of a letter
Ord(c) == IF IsUpper(c) THEN 64 + IndexIn(c, UpperCaseLetters)
                        ELSE 96 + IndexIn(c, LowerCaseLetters)

\* str.lower
Lower(s) == [k \in 1..Len(s) |->
               IF IsUpper(s[k]) THEN LowerCaseLetters[IndexIn(s[k], UpperCaseLetters)]
                                ELSE s[k]]

\* Python's `c in s` for a character c and a string or list s
In(c, s) == \E k \in 1..Len(s) : s[k] = c

\* Python's string comparison a < b
StrLess(a, b) ==
    \/ \E k \in 1..Len(a) :
          /\ k <= Len(b)
          /\ \A m \in 1..(k-1) : a[m] = b[m]
          /\ Ord(a[k]) < Ord(b[k])
    \/ /\ Len(a) < Len(b)
       /\ \A m \in 1..Len(a) : a[m] = b[m]

\* sorted(words): Python's stable sort of a list of strings, ascending
RECURSIVE InsertWord(_, _)
InsertWord(x, s) ==
    IF s = <<>> THEN <<x>>
    ELSE IF StrLess(x, s[1]) THEN <<x>> \o s
         ELSE <<s[1]>> \o InsertWord(x, Tail(s))

RECURSIVE SortedWords(_)
SortedWords(s) ==
    IF s = <<>> THEN <<>>
    ELSE InsertWord(s[Len(s)], SortedWords(SubSeq(s, 1, Len(s) - 1)))

\* sorted(items, key=score, reverse=True): stable, descending by score
RECURSIVE InsertItem(_, _)
InsertItem(x, s) ==
    IF s = <<>> THEN <<x>>
    ELSE IF x.v > s[1].v THEN <<x>> \o s
         ELSE <<s[1]>> \o InsertItem(x, Tail(s))

RECURSIVE SortedByScore(_)
SortedByScore(s) ==
    IF s = <<>> THEN <<>>
    ELSE InsertItem(s[Len(s)], SortedByScore(SubSeq(s, 1, Len(s) - 1)))

-----------------------------------------------------------------------------
(* The word lists and the frequency lookup (external data) *)

w_right == <<"r","i","g","h","t">>
w_light == <<"l","i","g","h","t">>
w_might == <<"m","i","g","h","t">>
w_night == <<"n","i","g","h","t">>
w_sight == <<"s","i","g","h","t">>
w_tight == <<"t","i","g","h","t">>
w_fight == <<"f","i","g","h","t">>
w_wight == <<"w","i","g","h","t">>
w_eerie == <<"e","e","r","i","e">>
w_eight == <<"e","i","g","h","t">>
w_abbey == <<"a","b","b","e","y">>
w_kebab == <<"k","e","b","a","b">>
w_babel == <<"b","a","b","e","l">>
w_kabab == <<"k","a","b","a","b">>
w_RIGHT == <<"R","I","G","H","T">>
w_rite == <<"r","i","t","e">>
w_rights == <<"r","i","g","h","t","s">>
w_girth == <<"g","i","r","t","h">>
w_random == <<"r","a","n","d","o","m">>
w_RANDOM == <<"R","A","N","D","O","M">>

\* contents of wordle.txt, in file order
FileWordle ==
    SubSeq(<<w_sight, w_eerie, w_right, w_wight, w_light,
             w_tight, w_might, w_fight, w_night, w_eight>>, 1, NumNewWords)

\* contents of wordle_answers.txt
FileWordleAnswers == <<w_tight, w_eerie>>

\* contents of wordle_old.txt
FileWordleOld == <<w_kebab, w_abbey, w_kabab, w_babel>>

\* contents of wordle_answers_old.txt
FileWordleAnswersOld == <<w_abbey>>

\* f.read().split(", ") of the named file
ReadWords(fn) ==
    CASE fn = "wordle.txt" -> FileWordle
      [] fn = "wordle_answers.txt" -> FileWordleAnswers
      [] fn = "wordle_old.txt" -> FileWordleOld
      [] fn = "wordle_answers_old.txt" -> FileWordleAnswersOld

\* zipf_frequency(word, "en"), in tenths; 0 for a word the frequency table does not know
zf(word) ==
    CASE word = w_right -> 58
      [] word = w_light -> 54
      [] word = w_might -> 54
      [] word = w_night -> 56
      [] word = w_sight -> 45
      [] word = w_tight -> 45
      [] word = w_fight -> 51
      [] word = w_eight -> 50
      [] word = w_eerie -> 33
      [] word = w_wight -> 12
      [] word = w_abbey -> 40
      [] word = w_kebab -> 28
      [] word = w_babel -> 31
      [] OTHER -> 0

-----------------------------------------------------------------------------
(* Dicts as sequences of [k, v] records in insertion order *)

DictHas(d, k) == \E n \in 1..Len(d) : d[n].k = k

DictGet(d, k) == d[CHOOSE n \in 1..Len(d) : d[n].k = k].v

\* d[k] = v : an existing key keeps its place
DictSet(d, k, v) ==
    IF DictHas(d, k)
    THEN [n \in 1..Len(d) |-> IF d[n].k = k THEN [k |-> k, v |-> v] ELSE d[n]]
    ELSE Append(d, [k |-> k, v |-> v])

\* the entries of a dict word -> score, as [word, score] records
Entry(w, s) == [k |-> w, v |-> s]

-----------------------------------------------------------------------------
(* Wordle.__init__ *)

WordLen == 5

\* attributes of the game state, assigned by the last lines of __init__
GameAttrs == {"freq", "played", "solved", "filtered", "not_in", "contains",
              "equals", "guesses", "board"}

\* the values the constructor is called with
AnswerArgs == {w_RIGHT, w_abbey, w_kebab,
               w_kabab, w_girth, w_rite, w_rights, w_random, w_RANDOM}
VersionArgs == {"new", "old", "nyt"}

\* freq: every word of the list with its score, most frequent first
RECURSIVE FillFreq(_, _, _)
FillFreq(ws, n, d) ==
    IF n > Len(ws) THEN d
    ELSE FillFreq(ws, n + 1, DictSet(d, ws[n], zf(ws[n])))

BuildFreq(ws) == SortedByScore(FillFreq(ws, 1, <<>>))

\* __init__ with the membership test made before the length test
WordleInitMembershipFirst(a, v, r) ==
    LET none == [err |-> "none", attrs |-> {}, answer |-> <<>>, words |-> <<>>,
                 freq |-> <<>>]
    IN
    IF v \notin {"new", "old"}
    THEN [none EXCEPT !.err = "VersionError"]
    ELSE
      LET fn  == IF v = "new" THEN "wordle.txt" ELSE "wordle_old.txt"
          fna == IF v = "new" THEN "wordle_answers.txt" ELSE "wordle_answers_old.txt"
          ans == SortedWords(ReadWords(fna))
          answ == IF a = w_random THEN ans[r] ELSE Lower(a)
          ws  == SortedWords(ReadWords(fn))
      IN
      IF ~ \E n \in 1..Len(ws) : ws[n] = answ
      THEN [none EXCEPT !.err = "InvalidWordError", !.attrs = {"answer", "words"},
                        !.answer = answ, !.words = ws]
      ELSE IF Len(answ) # WordLen
      THEN [none EXCEPT !.err = "WordLengthError", !.attrs = {"answer"},
                        !.answer = answ]
      ELSE [err |-> "none", attrs |-> {"answer", "words"} \cup GameAttrs,
            answer |-> answ, words |-> ws, freq |-> BuildFreq(ws)]

\* The outcome of Wordle(answer=a, version=v) when np.random.choice draws
\* entry r of the sorted answer list: the exception raised ("none" when the
\* object is constructed) and the attributes assigned up to that point.
WordleInit(a, v, r) ==
    LET none == [err |-> "none", attrs |-> {}, answer |-> <<>>, words |-> <<>>,
                 freq |-> <<>>]
    IN
    IF v \notin {"new", "old"}
    THEN [none EXCEPT !.err = "VersionError"]
    ELSE
      LET fn  == IF v = "new" THEN "wordle.txt" ELSE "wordle_old.txt"
          fna == IF v = "new" THEN "wordle_answers.txt" ELSE "wordle_answers_old.txt"
          ans == SortedWords(ReadWords(fna))
          answ == IF a = w_random THEN ans[r] ELSE Lower(a)
          ws  == SortedWords(ReadWords(fn))
      IN
      IF Len(answ) # WordLen
      THEN [none EXCEPT !.err = "WordLengthError", !.attrs = {"answer"},
                        !.answer = answ]
      ELSE IF ~ \E n \in 1..Len(ws) : ws[n] = answ
      THEN [none EXCEPT !.err = "InvalidWordError", !.attrs = {"answer", "words"},
                        !.answer = answ, !.words = ws]
      ELSE [err |-> "none", attrs |-> {"answer", "words"} \cup GameAttrs,
            answer |-> answ, words |-> ws, freq |-> BuildFreq(ws)]

\* the draws np.random.choice(ans) can make for the arguments (1 when it is not called)
RandomDraws(a, v) ==
    IF a = w_random /\ v \in {"new", "old"}
    THEN 1..Len(ReadWords(IF v = "new" THEN "wordle_answers.txt"
                                       ELSE "wordle_answers_old.txt"))
    ELSE {1}

NoCall == [op |-> "none", arg |-> <<>>]

Init ==
    /\ pc = "unconstructed"
    /\ err = "none"
    /\ args = [answer |-> <<>>, version |-> ""]
    /\ attrs = {}
    /\ answer = <<>>
    /\ words = <<>>
    /\ freq = <<>>
    /\ played = FALSE
    /\ solved = FALSE
    /\ filtered = <<>>
    /\ shared = FALSE
    /\ not_in = <<>>
    /\ contains = <<>>
    /\ equals = <<>>
    /\ guesses = <<>>
    /\ board = <<>>
    /\ i = 0
    /\ guess = <<>>
    /\ ret = FALSE
    /\ printed = <<>>
    /\ last = NoCall
    /\ calls = 0

\* Wordle(answer, version)
Construct ==
    /\ pc = "unconstructed"
    /\ \E a \in AnswerArgs, v \in VersionArgs :
         \E r \in RandomDraws(a, v) :
           LET o == WordleInit(a, v, r) IN
           /\ args' = [answer |-> a, version |-> v]
           /\ err' = o.err
           /\ attrs' = o.attrs
           /\ answer' = o.answer
           /\ words' = o.words
           /\ freq' = o.freq
           /\ filtered' = o.freq
           /\ shared' = (o.err = "none")
           /\ pc' = IF o.err = "none" THEN "idle" ELSE "failed"
    /\ last' = [op |-> "__init__", arg |-> <<>>]
    /\ UNCHANGED <<played, solved, not_in, contains, equals, guesses, board,
                   i, guess, ret, printed, calls>>

-----------------------------------------------------------------------------
(* The methods *)

green_square == "green"
yellow_square == "yellow"
gray_square == "gray"

\* number of iterations of the round loop of play()
NumRounds == 6

\* reset_game() without the line that clears not_in
reset_game_KeepsNotIn ==
    /\ played' = FALSE
    /\ solved' = FALSE
    /\ filtered' = freq
    /\ shared' = TRUE
    /\ not_in' = not_in
    /\ contains' = <<>>
    /\ equals' = <<>>
    /\ guesses' = <<>>
    /\ board' = <<>>

\* reset_game(): the assignments of lines 127-134
reset_game ==
    /\ played' = FALSE
    /\ solved' = FALSE
    /\ filtered' = freq
    /\ shared' = TRUE
    /\ not_in' = <<>>
    /\ contains' = <<>>
    /\ equals' = <<>>
    /\ guesses' = <<>>
    /\ board' = <<>>

\* return_total_moves() without the test of solved
return_total_moves_NoSolvedTest ==
    IF Len(guesses) = 6 THEN 7 ELSE Len(guesses)

\* return_total_moves() reporting 6 for a failed game
return_total_moves_Six ==
    IF ~solved /\ Len(guesses) = 6 THEN 6 ELSE Len(guesses)

\* return_total_moves()
return_total_moves ==
    IF ~solved /\ Len(guesses) = 6 THEN 7 ELSE Len(guesses)

\* sum(self.filtered.values())
RECURSIVE SumValues(_)
SumValues(d) == IF d = <<>> THEN 0 ELSE d[1].v + SumValues(Tail(d))

\* the entries np.random.choice(keys, p=probs) can return: those of
\* probability d[n].v / tot > 0, for tot = SumValues(d) > 0
Choices(d) == {n \in 1..Len(d) : d[n].v > 0}

\* make_guess() answering an empty candidate set with an empty word that it
\* records, instead of raising
make_guess_EmptyReturnsNothing ==
    IF filtered = <<>>
    THEN err' = "none" /\ guess' = <<>> /\ guesses' = Append(guesses, <<>>)
    ELSE IF SumValues(filtered) = 0
    THEN err' = "ZeroDivisionError" /\ UNCHANGED <<guesses, guess>>
    ELSE \E n \in Choices(filtered) :
           /\ guess' = filtered[n].k
           /\ guesses' = Append(guesses, filtered[n].k)
           /\ err' = "none"

\* make_guess(): draws a word and appends it to guesses; with no candidate
\* np.random.choice raises ValueError, and with candidates whose scores sum
\* to 0 the division raises ZeroDivisionError
make_guess ==
    IF filtered = <<>>
    THEN err' = "ValueError" /\ UNCHANGED <<guesses, guess>>
    ELSE IF SumValues(filtered) = 0
    THEN err' = "ZeroDivisionError" /\ UNCHANGED <<guesses, guess>>
    ELSE \E n \in Choices(filtered) :
           /\ guess' = filtered[n].k
           /\ guesses' = Append(guesses, filtered[n].k)
           /\ err' = "none"

\* the loop body of check_word without the elif branch: a misplaced letter is excluded
CheckLetterNoYellow(j, g, ans, st) ==
    IF g[j + 1] = ans[j + 1]
    THEN [st EXCEPT !.bd = Append(@, green_square),
                    !.equals = DictSet(@, j, g[j + 1])]
    ELSE [st EXCEPT !.bd = Append(@, gray_square),
                    !.not_in = Append(@, g[j + 1])]

\* the loop body of check_word marking a letter yellow only when the target
\* holds it at a position the guess does not match
CheckLetterUnmatchedYellow(j, g, ans, st) ==
    LET t_let == ans[j + 1]
        g_let == g[j + 1]
    IN
    IF g_let = t_let
    THEN [st EXCEPT !.bd = Append(@, green_square),
                    !.equals = DictSet(@, j, g_let)]
    ELSE IF \E q \in 1..Len(ans) : ans[q] = g_let /\ g[q] # ans[q]
    THEN [st EXCEPT !.bd = Append(@, yellow_square),
                    !.contains = IF ~DictHas(@, j)
                                 THEN DictSet(@, j, <<g_let>>)
                                 ELSE DictSet(@, j, Append(DictGet(@, j), g_let))]
    ELSE [st EXCEPT !.bd = Append(@, gray_square),
                    !.not_in = Append(@, g_let)]

\* the loop body of check_word assigning a new list to contains[j] for every
\* misplaced letter
CheckLetterReplacesList(j, g, ans, st) ==
    LET t_let == ans[j + 1]
        g_let == g[j + 1]
    IN
    IF g_let = t_let
    THEN [st EXCEPT !.bd = Append(@, green_square),
                    !.equals = DictSet(@, j, g_let)]
    ELSE IF In(g_let, ans)
    THEN [st EXCEPT !.bd = Append(@, yellow_square),
                    !.contains = DictSet(@, j, <<g_let>>)]
    ELSE [st EXCEPT !.bd = Append(@, gray_square),
                    !.not_in = Append(@, g_let)]

\* one iteration of the loop of check_word, at position j
\* st = [bd, equals, contains, not_in]
CheckLetter(j, g, ans, st) ==
    LET t_let == ans[j + 1]
        g_let == g[j + 1]
    IN
    IF g_let = t_let
    THEN [st EXCEPT !.bd = Append(@, green_square),
                    !.equals = DictSet(@, j, g_let)]
    ELSE IF In(g_let, ans)
    THEN [st EXCEPT !.bd = Append(@, yellow_square),
                    !.contains = IF ~DictHas(@, j)
                                 THEN DictSet(@, j, <<g_let>>)
                                 ELSE DictSet(@, j, Append(DictGet(@, j), g_let))]
    ELSE [st EXCEPT !.bd = Append(@, gray_square),
                    !.not_in = Append(@, g_let)]

\* for j in range(len(self.answer))
RECURSIVE CheckLetters(_, _, _, _)
CheckLetters(j, g, ans, st) ==
    IF j >= Len(ans) THEN st
    ELSE CheckLetters(j + 1, g, ans, CheckLetter(j, g, ans, st))

\* check_word(g) without the test of solved at its head
check_word_NoGuard(g) ==
    LET st == CheckLetters(0, g, answer,
                  [bd |-> <<>>, equals |-> equals, contains |-> contains,
                   not_in |-> not_in])
    IN /\ equals' = st.equals
       /\ contains' = st.contains
       /\ not_in' = st.not_in
       /\ board' = Append(board, st.bd)

\* check_word(g) leaving the row of a guess that is the target off the board
check_word_NoRowForTarget(g) ==
    IF solved
    THEN UNCHANGED <<equals, contains, not_in, board>>
    ELSE LET st == CheckLetters(0, g, answer,
                       [bd |-> <<>>, equals |-> equals, contains |-> contains,
                        not_in |-> not_in])
         IN /\ equals' = st.equals
            /\ contains' = st.contains
            /\ not_in' = st.not_in
            /\ board' = IF g = answer THEN board ELSE Append(board, st.bd)

\* check_word(g)
check_word(g) ==
    IF solved
    THEN UNCHANGED <<equals, contains, not_in, board>>
    ELSE LET st == CheckLetters(0, g, answer,
                       [bd |-> <<>>, equals |-> equals, contains |-> contains,
                        not_in |-> not_in])
         IN /\ equals' = st.equals
            /\ contains' = st.contains
            /\ not_in' = st.not_in
            /\ board' = Append(board, st.bd)

\* is_solved(g)
is_solved(g) == g = answer

\* first loop of filter_possible: for k in self.equals
RECURSIVE FilterEquals(_, _, _)
FilterEquals(f, eq, n) ==
    IF n > Len(eq) THEN f
    ELSE FilterEquals(SelectSeq(f, LAMBDA e : e.k[eq[n].k + 1] = eq[n].v), eq, n + 1)

\* the inner loop keeping the words that hold the letter AT position k
RECURSIVE FilterLettersSamePosition(_, _, _, _)
FilterLettersSamePosition(f, k, lets, m) ==
    IF m > Len(lets) THEN f
    ELSE FilterLettersSamePosition(
            SelectSeq(f, LAMBDA e : In(lets[m], e.k) /\ e.k[k + 1] = lets[m]),
            k, lets, m + 1)

\* the inner loop keeping every word that holds the letter, wherever it is
RECURSIVE FilterLettersNoPosition(_, _, _, _)
FilterLettersNoPosition(f, k, lets, m) ==
    IF m > Len(lets) THEN f
    ELSE FilterLettersNoPosition(
            SelectSeq(f, LAMBDA e : In(lets[m], e.k)), k, lets, m + 1)

\* inner loop of the second loop: for let in self.contains[k]
RECURSIVE FilterLetters(_, _, _, _)
FilterLetters(f, k, lets, m) ==
    IF m > Len(lets) THEN f
    ELSE FilterLetters(
            SelectSeq(f, LAMBDA e : In(lets[m], e.k) /\ ~ (e.k[k + 1] = lets[m])),
            k, lets, m + 1)

\* second loop of filter_possible: for k in self.contains
RECURSIVE FilterContains(_, _, _)
FilterContains(f, con, n) ==
    IF n > Len(con) THEN f
    ELSE FilterContains(FilterLetters(f, con[n].k, con[n].v, 1), con, n + 1)

\* the third loop with its comprehension over self.freq instead of self.filtered
RECURSIVE FilterNotInFromLexicon(_, _, _)
FilterNotInFromLexicon(f, ni, n) ==
    IF n > Len(ni) THEN f
    ELSE FilterNotInFromLexicon(SelectSeq(freq, LAMBDA e : ~ In(ni[n], e.k)), ni, n + 1)

\* the third loop starting at the second entry of self.not_in
RECURSIVE FilterNotInSkipFirst(_, _, _)
FilterNotInSkipFirst(f, ni, n) ==
    IF n > Len(ni) THEN f
    ELSE IF n = 1 THEN FilterNotInSkipFirst(f, ni, n + 1)
    ELSE FilterNotInSkipFirst(SelectSeq(f, LAMBDA e : ~ In(ni[n], e.k)), ni, n + 1)

\* third loop of filter_possible: for k in self.not_in
RECURSIVE FilterNotIn(_, _, _)
FilterNotIn(f, ni, n) ==
    IF n > Len(ni) THEN f
    ELSE FilterNotIn(SelectSeq(f, LAMBDA e : ~ In(ni[n], e.k)), ni, n + 1)

\* the value filter_possible() leaves in self.filtered
FilterPossible(f, eq, con, ni) ==
    FilterNotIn(FilterContains(FilterEquals(f, eq, 1), con, 1), ni, 1)

\* some loop of filter_possible() runs its comprehension, which binds
\* self.filtered to a new dict
Rebinds(eq, con, ni) ==
    \/ Len(eq) > 0
    \/ \E n \in 1..Len(con) : Len(con[n].v) > 0
    \/ Len(ni) > 0

\* filter_possible() deleting the rejected words from the dict self.filtered
\* refers to, which is the dict of self.freq until something else is assigned
filter_possible_InPlace ==
    /\ filtered' = FilterPossible(filtered, equals, contains, not_in)
    /\ shared' = shared
    /\ freq' = IF shared THEN FilterPossible(filtered, equals, contains, not_in)
                         ELSE freq

\* filter_possible(): every comprehension builds a new dict and assigns it to
\* self.filtered; the dict self.freq refers to is not written
filter_possible ==
    /\ filtered' = FilterPossible(filtered, equals, contains, not_in)
    /\ shared' = (shared /\ ~Rebinds(equals, contains, not_in))
    /\ freq' = freq

\* the lines print_state() writes
PrintedLines == [n \in 1..Len(board) |-> [row |-> board[n], word |-> guesses[n]]]

-----------------------------------------------------------------------------
(* play(), step by step *)

Constructed == pc # "unconstructed" /\ pc # "failed"

\* lines 107-110: reset an already played session, enter the loop
PlayEnter ==
    /\ pc = "idle"
    /\ IF played THEN reset_game ELSE UNCHANGED game
    /\ i' = 0
    /\ guess' = <<>>
    /\ ret' = FALSE
    /\ printed' = <<>>
    /\ pc' = "make_guess"
    /\ err' = "none"
    /\ last' = [op |-> "play", arg |-> <<>>]
    /\ UNCHANGED <<args, attrs, answer, words, freq, calls>>

\* line 111; an exception of make_guess leaves play()
PlayMakeGuess ==
    /\ pc = "make_guess"
    /\ make_guess
    /\ pc' = IF err' = "none" THEN "check_word" ELSE "idle"
    /\ i' = IF err' = "none" THEN i ELSE 0
    /\ UNCHANGED <<args, attrs, answer, words, freq, played, solved, filtered, shared,
                   not_in, contains, equals, board, ret, printed, last, calls>>

\* line 113
PlayCheckWord ==
    /\ pc = "check_word"
    /\ check_word(guess)
    /\ pc' = "filter_possible"
    /\ UNCHANGED <<err, args, attrs, answer, words, freq, played, solved, filtered, shared,
                   guesses, i, guess, ret, printed, last, calls>>

\* line 115
PlayFilterPossible ==
    /\ pc = "filter_possible"
    /\ filter_possible
    /\ pc' = "is_solved"
    /\ UNCHANGED <<err, args, attrs, answer, words, played, solved,
                   not_in, contains, equals, guesses, board, i, guess, ret,
                   printed, last, calls>>

\* lines 117-119 without the break
PlayIsSolvedNoBreak ==
    /\ pc = "is_solved"
    /\ solved' = (solved \/ is_solved(guess))
    /\ i' = i + 1
    /\ pc' = IF i + 1 < NumRounds THEN "make_guess" ELSE "print_state"
    /\ UNCHANGED <<err, args, attrs, answer, words, freq, played, filtered, shared,
                   not_in, contains, equals, guesses, board, guess, ret,
                   printed, last, calls>>

\* lines 117-119 with a loop of one more iteration
PlayIsSolvedSevenRounds ==
    /\ pc = "is_solved"
    /\ IF is_solved(guess)
       THEN /\ solved' = TRUE
            /\ pc' = "print_state"
            /\ i' = i
       ELSE /\ solved' = solved
            /\ i' = i + 1
            /\ pc' = IF i + 1 < NumRounds + 1 THEN "make_guess" ELSE "print_state"
    /\ UNCHANGED <<err, args, attrs, answer, words, freq, played, filtered, shared,
                   not_in, contains, equals, guesses, board, guess, ret,
                   printed, last, calls>>

\* lines 117-119 and the loop header: break when solved, else next i
PlayIsSolved ==
    /\ pc = "is_solved"
    /\ IF is_solved(guess)
       THEN /\ solved' = TRUE
            /\ pc' = "print_state"
            /\ i' = i
       ELSE /\ solved' = solved
            /\ i' = i + 1
            /\ pc' = IF i + 1 < NumRounds THEN "make_guess" ELSE "print_state"
    /\ UNCHANGED <<err, args, attrs, answer, words, freq, played, filtered, shared,
                   not_in, contains, equals, guesses, board, guess, ret,
                   printed, last, calls>>

\* lines 121-124: print the board, mark the session played, return solved
PlayReturn ==
    /\ pc = "print_state"
    /\ printed' = PrintedLines
    /\ played' = TRUE
    /\ ret' = solved
    /\ i' = 0
    /\ guess' = <<>>
    /\ pc' = "idle"
    /\ UNCHANGED <<err, args, attrs, answer, words, freq, solved, filtered, shared,
                   not_in, contains, equals, guesses, board, last, calls>>

\* a call of reset_game() by the client, between plays
CallResetGame ==
    /\ pc = "idle"
    /\ reset_game
    /\ err' = "none"
    /\ last' = [op |-> "reset_game", arg |-> <<>>]
    /\ UNCHANGED <<pc, args, attrs, answer, words, freq, i, guess, ret, printed, calls>>

Next ==
    \/ Construct
    \/ PlayEnter
    \/ PlayMakeGuess
    \/ PlayCheckWord
    \/ PlayFilterPossible
    \/ PlayIsSolved
    \/ PlayReturn
    \/ CallResetGame

Spec == Init /\ [][Next]_vars

\* a statement of play() once play() is entered: the method runs to its return
\* or to an exception without yielding control
PlayStep ==
    \/ PlayMakeGuess
    \/ PlayCheckWord
    \/ PlayFilterPossible
    \/ PlayIsSolved
    \/ PlayReturn

\* Spec with play() running on once it is entered
SpecLive == Init /\ [][Next]_vars /\ WF_vars(PlayStep)

-----------------------------------------------------------------------------
(* A client that calls the methods of a constructed session directly *)

\* make_guess()
CallMakeGuess ==
    /\ pc = "idle"
    /\ calls < MaxCalls
    /\ make_guess
    /\ last' = [op |-> "make_guess", arg |-> <<>>]
    /\ calls' = calls + 1
    /\ UNCHANGED <<pc, args, attrs, answer, words, freq, played, solved, filtered, shared,
                   not_in, contains, equals, board, i, ret, printed>>

\* check_word(g) for a word g of the list
CallCheckWord ==
    /\ pc = "idle"
    /\ calls < MaxCalls
    /\ \E n \in 1..Len(words) :
          /\ check_word(words[n])
          /\ last' = [op |-> "check_word", arg |-> words[n]]
    /\ err' = "none"
    /\ calls' = calls + 1
    /\ UNCHANGED <<pc, args, attrs, answer, words, freq, played, solved, filtered, shared,
                   guesses, i, guess, ret, printed>>

\* filter_possible()
CallFilterPossible ==
    /\ pc = "idle"
    /\ calls < MaxCalls
    /\ filter_possible
    /\ err' = "none"
    /\ last' = [op |-> "filter_possible", arg |-> <<>>]
    /\ calls' = calls + 1
    /\ UNCHANGED <<pc, args, attrs, answer, words, played, solved,
                   not_in, contains, equals, guesses, board, i, guess, ret, printed>>

\* the letters a client writes into the constraint attributes: the letter of
\* the target at the position, or a letter no word of the lists holds
CraftLetters(k) == {answer[k + 1], "z"}

\* the positions the client writes at: the first and the last of a word
CraftPositions == {0, WordLen - 1}

\* the client writes contradictory entries into the public attributes of the
\* session: self.equals[k] = c and self.not_in.append(c)
CallCraftConstraints ==
    /\ pc = "idle"
    /\ calls < MaxCalls
    /\ \E k \in CraftPositions :
         \E c \in CraftLetters(k) :
           /\ equals' = DictSet(equals, k, c)
           /\ not_in' = Append(not_in, c)
           /\ last' = [op |-> "craft", arg |-> <<c>>]
    /\ err' = "none"
    /\ calls' = calls + 1
    /\ UNCHANGED <<pc, args, attrs, answer, words, freq, played, solved, filtered,
                   shared, contains, guesses, board, i, guess, ret, printed>>

NextApi ==
    \/ Construct
    \/ CallCraftConstraints
    \/ CallMakeGuess
    \/ CallCheckWord
    \/ CallFilterPossible
    \/ CallResetGame

SpecApi == Init /\ [][NextApi]_vars

-----------------------------------------------------------------------------
(* A client that plays, and calls check_word on a session it has solved *)

\* check_word(g) for a word g of the list, after a play() that found the target
CallCheckWordSolved ==
    /\ pc = "idle"
    /\ solved
    /\ \E n \in 1..Len(words) :
          /\ check_word(words[n])
          /\ last' = [op |-> "check_word", arg |-> words[n]]
    /\ err' = "none"
    /\ UNCHANGED <<pc, args, attrs, answer, words, freq, played, solved, filtered,
                   shared, guesses, i, guess, ret, printed, calls>>

NextProbe ==
    \/ Next
    \/ CallCheckWordSolved

SpecProbe == Init /\ [][NextProbe]_vars

-----------------------------------------------------------------------------
(* Properties *)

\* the steps of play() between its entry and its return
PlaySteps == {"make_guess", "check_word", "filter_possible", "is_solved", "print_state"}

\* play() has returned and nothing was called since
PlayDone == pc = "idle" /\ last.op = "play" /\ err = "none"

\* every entry of dict a is an entry of dict b: same word, same score
SubDict(a, b) == \A n \in 1..Len(a) : \E m \in 1..Len(b) : b[m] = a[n]

\* C1: in every state of a constructed session -- in particular after every
\* filter_possible of play(), while the game is in progress, and once it is
\* solved or exhausted -- the target is a key of the candidate set.
C1_TargetStaysCandidate ==
    Constructed => \E n \in 1..Len(filtered) : filtered[n].k = answer

\* a round of play() whose filter has just removed words because of a yellow
\* letter, with the target still a candidate
C1_Witness ==
    /\ pc = "is_solved"
    /\ guess # answer
    /\ contains # <<>>
    /\ Len(filtered) < Len(freq)
    /\ \E n \in 1..Len(filtered) : filtered[n].k = answer

\* C2: every filter_possible step leaves a candidate set whose entries are
\* entries of the candidate set before it (same word, same score), and no step
\* of a running play() adds a candidate, so the set never grows or regains a
\* word during a play().
C2_FilterNarrows ==
    [][(pc \in PlaySteps) =>
          /\ SubDict(filtered', filtered)
          /\ Len(filtered') <= Len(filtered)]_vars

\* the third round of a play(): the candidate set has been narrowed twice and
\* still holds several words
C2_Witness ==
    /\ pc = "is_solved"
    /\ Len(guesses) = 3
    /\ Len(filtered) > 1
    /\ Len(filtered) + 3 <= Len(freq)

C4_ExhaustedReportsSix ==
    PlayDone =>
      IF solved THEN return_total_moves \in 1..6 ELSE return_total_moves = 6

\* C4 amended: after an unsolved (exhausted) play() return_total_moves is 7,
\* after a solved one it is in 1..6.
C4_ExhaustedReportsSeven ==
    PlayDone =>
      IF solved THEN return_total_moves \in 1..6 ELSE return_total_moves = 7

\* a play() that returned without solving
C4_Witness ==
    /\ PlayDone
    /\ ~solved
    /\ ~ret
    /\ Len(guesses) = 6

\* C5: the target is never followed by another guess (it can only be the last
\* element of guesses); a play() that returns true ends with the target as its
\* last guess, and a play() returns false exactly when it made six guesses of
\* which none is the target.
C5_StopsWhenSolved ==
    Constructed =>
      /\ \A n \in 1..(Len(guesses) - 1) : guesses[n] # answer
      /\ PlayDone =>
            /\ ret = solved
            /\ ret <=> (guesses # <<>> /\ guesses[Len(guesses)] = answer)
            /\ ~ret <=> /\ Len(guesses) = 6
                        /\ \A n \in 1..Len(guesses) : guesses[n] # answer

\* a play() solved with rounds to spare
C5_Witness ==
    /\ PlayDone
    /\ ret
    /\ Len(guesses) \in 2..4
    /\ guesses[Len(guesses)] = answer
    /\ played

\* the state reset_game() leaves
Fresh ==
    /\ filtered = freq
    /\ Len(freq) = Len(words)
    /\ \A n \in 1..Len(words) :
          \E m \in 1..Len(freq) : freq[m] = Entry(words[n], zf(words[n]))
    /\ equals = <<>>
    /\ contains = <<>>
    /\ not_in = <<>>
    /\ guesses = <<>>
    /\ board = <<>>
    /\ ~solved
    /\ ~played

\* C6: a call of reset_game(), whatever the session went through before, and
\* the entry of play() on an already played session, both leave the candidate
\* set equal to the full lexicon with its scores, the three constraint stores,
\* guesses and board empty, and solved and played false.
C6_ResetRestores ==
    [][ (\/ pc = "idle" /\ pc' = "idle" /\ last'.op = "reset_game"
         \/ pc = "idle" /\ played /\ pc' = "make_guess") => Fresh' ]_vars

\* reset_game() was called after a play() that exhausted its six rounds
C6_Witness ==
    /\ last.op = "reset_game"
    /\ Len(printed) = 6
    /\ ~ret
    /\ Fresh

\* C7: every row of the board has one symbol per position of the target, and
\* the symbol at a position is green iff the guess has the target's letter
\* there, else yellow iff the guess's letter occurs anywhere in the target,
\* else gray: a function of the guess and the target alone.
C7_FeedbackRule ==
    Constructed =>
      \A n \in 1..Len(board) :
        /\ n <= Len(guesses)
        /\ Len(board[n]) = Len(answer)
        /\ \A q \in 1..Len(answer) :
              LET c == guesses[n][q] IN
              board[n][q] =
                IF c = answer[q] THEN green_square
                ELSE IF \E t \in 1..Len(answer) : answer[t] = c THEN yellow_square
                ELSE gray_square

\* a guess that repeats a letter the target holds once, matched at one place
\* and misplaced at another: both places are marked
C7_Witness ==
    \E n \in 1..Len(board) :
      \E q1, q2 \in 1..5 :
        /\ q1 # q2
        /\ guesses[n][q1] = guesses[n][q2]
        /\ board[n][q1] = green_square
        /\ board[n][q2] = yellow_square
        /\ Cardinality({t \in 1..5 : answer[t] = guesses[n][q1]}) = 1

\* C9: every letter stored in equals or in a list of contains occurs in the
\* target, no letter of not_in occurs in the target (so no letter is both
\* excluded and required), and equals[k] is the target's letter at k.
C9_ConstraintsConsistent ==
    Constructed =>
      /\ \A n \in 1..Len(equals) : equals[n].v = answer[equals[n].k + 1]
      /\ \A n \in 1..Len(contains) : \A m \in 1..Len(contains[n].v) :
            \E t \in 1..Len(answer) : answer[t] = contains[n].v[m]
      /\ \A n \in 1..Len(not_in) :
            /\ ~ \E t \in 1..Len(answer) : answer[t] = not_in[n]
            /\ ~ \E e \in 1..Len(equals) : equals[e].v = not_in[n]
            /\ ~ \E e \in 1..Len(contains) : \E m \in 1..Len(contains[e].v) :
                    contains[e].v[m] = not_in[n]

\* all three stores hold something
C9_Witness ==
    /\ equals # <<>>
    /\ contains # <<>>
    /\ not_in # <<>>
    /\ pc = "filter_possible"

\* the word list the constructor loads for a version, as a set
ListOf(v) == {ReadWords(IF v = "new" THEN "wordle.txt" ELSE "wordle_old.txt")[n] :
                n \in 1..Len(ReadWords(IF v = "new" THEN "wordle.txt"
                                                    ELSE "wordle_old.txt"))}

\* C10: the constructor fails with VersionError iff the version is neither
\* "new" nor "old"; otherwise with WordLengthError iff the answer (lower-cased,
\* or drawn when "random") has not 5 letters; otherwise with InvalidWordError
\* iff the answer is not in the loaded list; it fails in no other case, and
\* after a failure none of the game attributes is assigned and no method is
\* ever called on the session.
C10_ConstructorErrors ==
    pc # "unconstructed" =>
      LET badVersion == args.version \notin {"new", "old"}
          badLength  == Len(answer) # 5
          notListed  == answer \notin ListOf(args.version)
      IN
      /\ (pc = "failed") <=> (badVersion \/ badLength \/ notListed)
      /\ pc = "failed" =>
            /\ err = IF badVersion THEN "VersionError"
                     ELSE IF badLength THEN "WordLengthError"
                     ELSE "InvalidWordError"
            /\ attrs \cap GameAttrs = {}
            /\ last.op = "__init__"
            /\ filtered = <<>> /\ guesses = <<>> /\ board = <<>>
      /\ (~badVersion /\ args.answer # w_random) =>
            \A q \in 1..Len(answer) :
               /\ Len(answer) = Len(args.answer)
               /\ ~IsUpper(answer[q])
               /\ answer[q] = args.answer[q] \/ IsUpper(args.answer[q])
      /\ pc # "failed" => attrs = {"answer", "words"} \cup GameAttrs

\* a five-letter answer that is not in the list of the chosen version
C10_Witness ==
    /\ pc = "failed"
    /\ err = "InvalidWordError"
    /\ Len(answer) = 5
    /\ attrs = {"answer", "words"}

\* C8: a call of check_word that directly follows a call of check_word with
\* the same guess leaves equals, contains and not_in as the first call left them.
C8_CheckWordIdempotent ==
    [][ (/\ last.op = "check_word"
         /\ last'.op = "check_word"
         /\ last'.arg = last.arg
         /\ calls' = calls + 1)
        => (equals' = equals /\ contains' = contains /\ not_in' = not_in) ]_vars

\* the constraint state fixes a letter at a position and excludes the same letter
Contradictory ==
    \E n \in 1..Len(equals) : \E m \in 1..Len(not_in) : equals[n].v = not_in[m]

\* C11: a direct make_guess() on an empty candidate set raises an error, returns
\* no word and leaves guesses as they were; and a filter_possible() run on a
\* constraint state that fixes a letter at a position and also excludes it
\* leaves no candidate, so that the make_guess() after it always fails.
C11_EmptySetFails ==
    [][/\ (last'.op = "make_guess" /\ calls' = calls + 1 /\ filtered = <<>>) =>
             /\ err' # "none"
             /\ guesses' = guesses
             /\ guess' = guess
       /\ (last'.op = "filter_possible" /\ calls' = calls + 1 /\ Contradictory) =>
             filtered' = <<>>]_vars

\* make_guess() has just failed on the candidate set that the filter emptied
\* for contradictory entries written by the client
C11_Witness ==
    /\ last.op = "make_guess"
    /\ err = "ValueError"
    /\ filtered = <<>>
    /\ Contradictory
    /\ guesses = <<>>

\* C12: every make_guess() of play() on a non-empty candidate set returns a key
\* of the candidate set and appends exactly that word to guesses, leaving the
\* candidate set, the constraints, the board and the flags alone; and on a
\* candidate set of one word it returns that word, whatever its score.
C12_GuessFromCandidates ==
    [][(pc = "make_guess" /\ filtered # <<>>) =>
          /\ err' = "none"
          /\ \E n \in 1..Len(filtered) : filtered[n].k = guess'
          /\ guesses' = Append(guesses, guess')
          /\ UNCHANGED <<filtered, shared, equals, contains, not_in, board,
                         played, solved>>
          /\ Len(filtered) = 1 => guess' = filtered[1].k]_vars

\* C13: no step of a constructed session -- play() with its make_guess,
\* check_word and filter_possible, and reset_game(), over any number of
\* plays -- changes answer, words or freq: narrowing the candidate set, which
\* starts as the very dict of freq, removes no word from the lexicon.
C13_LexiconFixed ==
    [][Constructed =>
          /\ answer' = answer
          /\ words' = words
          /\ freq' = freq
          /\ Len(freq') = Len(words)]_vars

\* the filter of a first round has narrowed the candidate set, which was the
\* dict of the lexicon until then, and the lexicon is whole
C13_Witness ==
    /\ pc = "is_solved"
    /\ Len(guesses) = 1
    /\ ~shared
    /\ Len(filtered) < Len(freq)
    /\ Len(freq) = Len(words)

\* word w satisfies the three predicates for the constraint state
Satisfies(w, eq, con, ni) ==
    /\ \A n \in 1..Len(eq) : w[eq[n].k + 1] = eq[n].v
    /\ \A n \in 1..Len(con) : \A m \in 1..Len(con[n].v) :
          In(con[n].v[m], w) /\ w[con[n].k + 1] # con[n].v[m]
    /\ \A m \in 1..Len(ni) : ~ In(ni[m], w)

\* C14: whenever the filter has run on the constraints recorded so far (after
\* every round of play(), and until the next check_word), the candidate set is
\* exactly the entries of the lexicon whose word satisfies all three
\* predicates for the accumulated constraint state; it is what the three loops
\* give on the full lexicon afresh, and what they give in the opposite order.
C14_FilterIsIntersection ==
    (Constructed /\ pc # "filter_possible") =>
       /\ filtered = SelectSeq(freq, LAMBDA e : Satisfies(e.k, equals, contains, not_in))
       /\ filtered = FilterPossible(freq, equals, contains, not_in)
       /\ filtered = FilterEquals(FilterContains(FilterNotIn(freq, not_in, 1),
                                                 contains, 1), equals, 1)

\* the second round is over: green, yellow and gray facts of two guesses are
\* recorded and the candidate set, narrowed twice, still holds several words
C14_Witness ==
    /\ pc = "is_solved"
    /\ Len(guesses) = 2
    /\ equals # <<>>
    /\ contains # <<>>
    /\ not_in # <<>>
    /\ Len(filtered) > 1

\* every constraint of the state before the step is a constraint after it
ConstraintsKept ==
    /\ \A n \in 1..Len(equals) :
          DictHas(equals', equals[n].k) /\ DictGet(equals', equals[n].k) = equals[n].v
    /\ \A n \in 1..Len(contains) :
          /\ DictHas(contains', contains[n].k)
          /\ \A m \in 1..Len(contains[n].v) :
                In(contains[n].v[m], DictGet(contains', contains[n].k))
    /\ \A m \in 1..Len(not_in) : In(not_in[m], not_in')

\* C15: no step of a running play() removes a constraint: a position of equals
\* keeps its letter, a letter of contains[i] stays in contains[i] and a letter
\* of not_in stays in not_in; the only steps that remove constraints are those
\* that run reset_game(), between plays, and they remove all of them.
C15_ConstraintsGrow ==
    [][/\ pc \in PlaySteps => ConstraintsKept
       /\ Constructed =>
             \/ ConstraintsKept
             \/ /\ pc = "idle"
                /\ equals' = <<>> /\ contains' = <<>> /\ not_in' = <<>>
                /\ guesses' = <<>> /\ board' = <<>> /\ filtered' = freq]_vars

\* check_word has just recorded a second letter for a position of contains
\* that held one from an earlier round, next to green and gray facts
C15_Witness ==
    /\ pc = "filter_possible"
    /\ Len(guesses) = 2
    /\ \E n \in 1..Len(contains) : Len(contains[n].v) = 2
    /\ equals # <<>>
    /\ not_in # <<>>

\* no element occurs twice in the list
NoDuplicate(s) == \A a, b \in 1..Len(s) : s[a] = s[b] => a = b

\* C16: in every state reached through play(), after any number of rounds and
\* whatever letters the guesses repeat, no list contains[i] holds a letter
\* twice and not_in holds no letter twice.
C16_SetSemantics ==
    Constructed =>
       /\ \A n \in 1..Len(contains) : NoDuplicate(contains[n].v)
       /\ NoDuplicate(not_in)

\* the feedback row of guess g against target a
FeedbackRow(g, a) ==
    [q \in 1..Len(a) |->
        IF g[q] = a[q] THEN green_square
        ELSE IF In(g[q], a) THEN yellow_square
        ELSE gray_square]

\* C17: in every state of a constructed session guesses is as long as board,
\* or one longer between make_guess and check_word of a round; so the two have
\* the same length at every round boundary and when play() has returned, and
\* then between 1 and 6 entries; board[n] is the feedback row of guesses[n]
\* against the target, in guess order, and print_state pairs them so.
C17_BoardMatchesGuesses ==
    Constructed =>
       /\ Len(guesses) = Len(board) + (IF pc = "check_word" THEN 1 ELSE 0)
       /\ \A n \in 1..Len(board) : board[n] = FeedbackRow(guesses[n], answer)
       /\ PlayDone =>
             /\ Len(board) \in 1..NumRounds
             /\ Len(printed) = Len(guesses)
             /\ \A n \in 1..Len(printed) :
                   /\ printed[n].word = guesses[n]
                   /\ printed[n].row = FeedbackRow(guesses[n], answer)

\* play() has returned solved at its fourth guess, with four rows printed
C17_Witness ==
    /\ PlayDone
    /\ solved
    /\ Len(guesses) = 4
    /\ Len(board) = 4
    /\ guesses[4] = answer
    /\ Len(printed) = 4

\* every word of the lexicon has a positive score
AllPositive == \A n \in 1..Len(freq) : freq[n].v > 0

\* the states of a game
NotStarted == pc = "idle" /\ ~played /\ guesses = <<>>
InProgress == pc \in PlaySteps
Solved == pc = "idle" /\ played /\ solved /\ Len(guesses) \in 1..NumRounds
Exhausted == pc = "idle" /\ played /\ ~solved /\ Len(guesses) = NumRounds

\* C18: on a constructed session whose lexicon has positive scores only, every
\* play() that is entered returns: it leads to Solved or Exhausted with played
\* set, in at most 6 rounds, no make_guess fails for want of a candidate, and
\* the session is never in a state other than NotStarted, InProgress, Solved
\* and Exhausted.
C18_PlayTerminates ==
    /\ [](Constructed /\ AllPositive =>
             /\ err = "none"
             /\ pc \in PlaySteps \ {"print_state"} => i < NumRounds
             /\ Len(guesses) <= NumRounds
             /\ NotStarted \/ InProgress \/ Solved \/ Exhausted)
    /\ (AllPositive /\ InProgress) ~> (played /\ (Solved \/ Exhausted))

\* a play() on a lexicon of positive scores has returned after six rounds
\* without the target
C18_Witness ==
    /\ PlayDone
    /\ AllPositive
    /\ Exhausted
    /\ Len(board) = NumRounds
    /\ ret = FALSE

\* C19: in a play(), the word make_guess returns satisfies every constraint
\* recorded in the earlier rounds and was not guessed before in the game; and
\* the filter of a round whose guess is not the target removes that guess
\* from the candidate set, which is therefore strictly smaller after the round.
C19_GuessEliminated ==
    [][/\ (pc = "make_guess" /\ pc' = "check_word") =>
             /\ Satisfies(guess', equals, contains, not_in)
             /\ ~ In(guess', guesses)
       /\ (pc = "filter_possible" /\ guess # answer) =>
             /\ ~ \E n \in 1..Len(filtered') : filtered'[n].k = guess
             /\ \E n \in 1..Len(filtered) : filtered[n].k = guess
             /\ Len(filtered') < Len(filtered)]_vars

\* the filter of a third round has removed a guess that differs from the
\* target only by one misplaced letter; three different words were guessed
C19_Witness ==
    /\ pc = "is_solved"
    /\ Len(guesses) = 3
    /\ guess # answer
    /\ Len(equals) = WordLen - 1
    /\ contains # <<>>
    /\ ~ \E n \in 1..Len(filtered) : filtered[n].k = guess
    /\ guesses[1] # guesses[2] /\ guesses[2] # guesses[3] /\ guesses[1] # guesses[3]

\* C20: a check_word() called on a session whose solved flag is set leaves
\* equals, contains, not_in and board as they were; and play() never calls
\* check_word with the flag set, so its guard is not taken within play().
C20_SolvedGuard ==
    /\ [](pc = "check_word" => ~solved)
    /\ [][(pc = "idle" /\ solved /\ last'.op = "check_word") =>
             UNCHANGED <<equals, contains, not_in, board>>]_vars

\* check_word has returned for a word other than the target on a session
\* that play() had solved in two guesses
C20_Witness ==
    /\ pc = "idle"
    /\ solved
    /\ last.op = "check_word"
    /\ last.arg # answer
    /\ Len(guesses) = 2
    /\ Len(board) = 2

====
